---- MODULE Spec2Model ----
(***************************************************************************)
(* Model of the Freshrelease MCP adapter (src/server.py): the tool catalog *)
(* returned by list_tools, the request helper make_request and the         *)
(* dispatcher call_tool.  Python values are tagged records so that a       *)
(* comparison such as  method == "GET"  is defined for a dict as well as   *)
(* for a string, and strings are built the way the code builds them.       *)
(***************************************************************************)
EXTENDS Integers, Sequences, FiniteSets, TLC

VARIABLES op, request, outbound, returned, caught, escaped, listed

vars == <<op, request, outbound, returned, caught, escaped, listed>>

(***************************************************************************)
(* Bounds of the model.                                                    *)
(***************************************************************************)
\* page numbers a caller supplies are 1..MaxPage
MaxPage == 2

(***************************************************************************)
(* Python values.                                                          *)
(***************************************************************************)
PyStr(s) == [ty |-> "str", s |-> s, d |-> <<>>]
PyInt(n) == [ty |-> "int", s |-> ToString(n), d |-> <<>>]
\* a dict is its items in insertion order, each item <<key, value>>
PyDict(items) == [ty |-> "dict", s |-> "", d |-> items]
PyNone == [ty |-> "none", s |-> "", d |-> <<>>]

\* key in dict
DictHas(dict, key) == \E i \in 1..Len(dict.d) : dict.d[i][1] = key

\* dict[key], for a key that is present
DictGet(dict, key) ==
    LET i == CHOOSE j \in 1..Len(dict.d) : dict.d[j][1] = key
    IN  dict.d[i][2]

\* dict.get(key, default)
DictGetDefault(dict, key, default) ==
    IF DictHas(dict, key) THEN DictGet(dict, key) ELSE default

\* dict[key] = value, for a key that is not yet present
DictSet(dict, key, value) == PyDict(Append(dict.d, <<key, value>>))

RECURSIVE Repr(_)
RECURSIVE ReprItems(_, _)
\* repr(value)
Repr(v) ==
    CASE v.ty = "str"  -> "'" \o v.s \o "'"
      [] v.ty = "int"  -> v.s
      [] v.ty = "none" -> "None"
      [] v.ty = "dict" -> "{" \o ReprItems(v.d, 1) \o "}"

ReprItems(items, i) ==
    IF i > Len(items) THEN ""
    ELSE "'" \o items[i][1] \o "': " \o Repr(items[i][2])
         \o (IF i < Len(items) THEN ", " ELSE "")
         \o ReprItems(items, i + 1)

\* str(value), which is what an f-string field {value} renders
Format(v) == IF v.ty = "str" THEN v.s ELSE Repr(v)

RECURSIVE Spaces(_)
Spaces(n) == IF n = 0 THEN "" ELSE " " \o Spaces(n - 1)

RECURSIVE Dumps(_, _)
RECURSIVE DumpsItems(_, _, _)
\* json.dumps(value, indent=2) at nesting depth level
Dumps(v, level) ==
    CASE v.ty = "str"  -> "\"" \o v.s \o "\""
      [] v.ty = "int"  -> v.s
      [] v.ty = "none" -> "null"
      [] v.ty = "dict" ->
            IF Len(v.d) = 0 THEN "{}"
            ELSE "{\n" \o DumpsItems(v.d, 1, level + 1)
                 \o "\n" \o Spaces(2 * level) \o "}"

DumpsItems(items, i, level) ==
    IF i > Len(items) THEN ""
    ELSE Spaces(2 * level) \o "\"" \o items[i][1] \o "\": "
         \o Dumps(items[i][2], level)
         \o (IF i < Len(items) THEN ",\n" ELSE "")
         \o DumpsItems(items, i + 1, level)

(***************************************************************************)
(* Outcome of evaluating a piece of code: a value, or a raised exception,  *)
(* together with the HTTP requests that went out while it ran.             *)
(***************************************************************************)
Return(value, calls) ==
    [raised |-> FALSE, cls |-> "", msg |-> "", value |-> value, calls |-> calls]

Raise(cls, msg, calls) ==
    [raised |-> TRUE, cls |-> cls, msg |-> msg, value |-> PyNone, calls |-> calls]

\* the base class of each exception class the code can meet
BaseClass ==
    [KeyError        |-> "LookupError",
     LookupError     |-> "Exception",
     NameError       |-> "Exception",
     TypeError       |-> "Exception",
     ValueError      |-> "Exception",
     JSONDecodeError |-> "ValueError",
     HTTPStatusError |-> "HTTPError",
     ConnectError    |-> "HTTPError",
     HTTPError       |-> "Exception",
     Exception       |-> "BaseException"]

RECURSIVE IsSubclass(_, _)
IsSubclass(cls, base) ==
    \/ cls = base
    \/ /\ cls \in DOMAIN BaseClass
       /\ IsSubclass(BaseClass[cls], base)

(***************************************************************************)
(* Module globals.                                                         *)
(***************************************************************************)
API_TOKEN == PyStr("secret")
BASE_URL == "https://freshworks.freshrelease.com"

\* the names bound at module level when call_tool runs
Globals ==
    {"os", "json", "httpx", "Server", "Tool", "TextContent", "mcp",
     "API_TOKEN", "BASE_URL", "server", "make_request", "list_tools",
     "call_tool", "main"}

\* reading a global name
LoadGlobal(name, value) ==
    IF name \in Globals THEN Return(value, <<>>)
    ELSE Raise("NameError", "name '" \o name \o "' is not defined", <<>>)

(***************************************************************************)
(* The remote API, as seen by one request: the transport fails, or a       *)
(* response arrives with a status and a body that decodes to json unless   *)
(* it is malformed.                                                        *)
(***************************************************************************)
TransportFailure ==
    [kind |-> "transport", status |-> 0, json |-> PyNone, malformed |-> FALSE]

Response(status, json, malformed) ==
    [kind |-> "response", status |-> status, json |-> json,
     malformed |-> malformed]

ReasonPhrase(status) ==
    CASE status = 200 -> "OK"
      [] status = 404 -> "Not Found"
      [] status = 500 -> "Internal Server Error"
      [] OTHER -> ""

\* httpx.Response.raise_for_status: the message of the HTTPStatusError
StatusErrorMessage(status, url) ==
    LET error_type ==
            CASE status \div 100 = 1 -> "Informational response"
              [] status \div 100 = 3 -> "Redirect response"
              [] status \div 100 = 4 -> "Client error"
              [] status \div 100 = 5 -> "Server error"
              [] OTHER -> "Invalid status code"
    IN  error_type \o " '" \o ToString(status) \o " " \o ReasonPhrase(status)
        \o "' for url '" \o url \o "'"

\* httpx.Response.is_success
IsSuccess(status) == status \div 100 = 2

(***************************************************************************)
(* make_request(project_key, endpoint, method="GET", body=None), called    *)
(* with the positional arguments pos.                                      *)
(***************************************************************************)
make_request(pos, remote) ==
    IF Len(pos) = 0 THEN
        Raise("TypeError",
              "make_request() missing 2 required positional arguments: "
              \o "'project_key' and 'endpoint'", <<>>)
    ELSE IF Len(pos) = 1 THEN
        Raise("TypeError",
              "make_request() missing 1 required positional argument: "
              \o "'endpoint'", <<>>)
    ELSE IF Len(pos) > 4 THEN
        Raise("TypeError",
              "make_request() takes from 2 to 4 positional arguments but "
              \o ToString(Len(pos)) \o " were given", <<>>)
    ELSE
        LET project_key == pos[1]
            endpoint == pos[2]
            method == IF Len(pos) >= 3 THEN pos[3] ELSE PyStr("GET")
            body == IF Len(pos) >= 4 THEN pos[4] ELSE PyNone
            url == BASE_URL \o "/" \o Format(project_key) \o Format(endpoint)
            headers == [Authorization |-> "Token " \o Format(API_TOKEN),
                        ContentType |-> "application/json"]
            sent == IF method = PyStr("GET")
                    THEN <<[method |-> "GET", url |-> url,
                            headers |-> headers, body |-> PyNone]>>
                    ELSE <<[method |-> method.s, url |-> url,
                            headers |-> headers, body |-> body]>>
        IN  IF method \in {PyStr("GET"), PyStr("POST"), PyStr("PUT")} THEN
                IF remote.kind = "transport" THEN
                    Raise("ConnectError", "All connection attempts failed",
                          sent)
                ELSE IF ~IsSuccess(remote.status) THEN
                    Raise("HTTPStatusError",
                          StatusErrorMessage(remote.status, url), sent)
                ELSE IF remote.malformed THEN
                    Raise("JSONDecodeError",
                          "Expecting value: line 1 column 1 (char 0)", sent)
                ELSE
                    Return(remote.json, sent)
            ELSE
                Raise("ValueError", "Unsupported method: " \o Format(method),
                      <<>>)

(***************************************************************************)
(* list_tools: the catalog.                                                *)
(***************************************************************************)
Tool(name, description, inputSchema) ==
    [name |-> name, description |-> description, inputSchema |-> inputSchema]

GetUsersTool ==
    Tool("freshrelease_get_users",
         "Get all users in the Freshrelease project with pagination",
         [type |-> "object",
          properties |->
            <<[name |-> "page", type |-> "number",
               description |-> "Page number for pagination", default |-> 1],
              [name |-> "limit", type |-> "number",
               description |-> "Number of users per page", default |-> 30]>>])

GetStatusesTool ==
    Tool("freshrelease_get_statuses",
         "Get all statuses in the project",
         [type |-> "object", properties |-> <<>>])

GetIssueTypesTool ==
    Tool("freshrelease_get_issue_types",
         "Get all issue types available in the project",
         [type |-> "object", properties |-> <<>>])

GetIssueTool ==
    Tool("freshrelease_get_issue",
         "Get a specific issue by its key (e.g., FBOTS-47941)",
         [type |-> "object",
          properties |->
            <<[name |-> "issue_key", type |-> "string",
               description |-> "Issue key (e.g., FBOTS-47941)"]>>,
          required |-> <<"issue_key">>])

CreateIssueTool ==
    Tool("freshrelease_create_issue",
         "Create a new issue in Freshrelease",
         [type |-> "object",
          properties |->
            <<[name |-> "title", type |-> "string",
               description |-> "Issue title"],
              [name |-> "description", type |-> "string",
               description |-> "Issue description"],
              [name |-> "issue_type_id", type |-> "string",
               description |-> "Issue type ID (e.g., '14' for task)"],
              [name |-> "owner_id", type |-> "string",
               description |-> "Owner user ID"],
              [name |-> "project_id", type |-> "string",
               description |-> "Project ID (e.g., '280')"],
              [name |-> "custom_fields", type |-> "object",
               description |-> "Custom fields as key-value pairs"]>>,
          required |-> <<"title", "description", "issue_type_id",
                         "owner_id", "project_id">>])

UpdateIssueTool ==
    Tool("freshrelease_update_issue",
         "Update an existing Freshrelease issue",
         [type |-> "object",
          properties |->
            <<[name |-> "issue_key", type |-> "string",
               description |-> "Issue key (e.g., FBOTS-48937)"],
              [name |-> "description", type |-> "string",
               description |-> "Updated issue description"],
              [name |-> "issue_type_id", type |-> "string",
               description |-> "Issue type ID"],
              [name |-> "custom_fields", type |-> "object",
               description |-> "Custom fields to update"]>>,
          required |-> <<"issue_key">>])

GetCommentsTool ==
    Tool("freshrelease_get_comments",
         "Get all comments on a specific issue",
         [type |-> "object",
          properties |->
            <<[name |-> "issue_id", type |-> "string",
               description |-> "Issue ID (numeric, e.g., '2563487')"]>>,
          required |-> <<"issue_id">>])

\* a descriptor of add_comment that leaves content optional
AddCommentTool_contentOptional ==
    Tool("freshrelease_add_comment",
         "Add a comment to a specific issue",
         [type |-> "object",
          properties |->
            <<[name |-> "issue_id", type |-> "string",
               description |-> "Issue ID (numeric, e.g., '2563487')"],
              [name |-> "content", type |-> "string",
               description |-> "Comment content"]>>,
          required |-> <<"issue_id">>])

AddCommentTool ==
    Tool("freshrelease_add_comment",
         "Add a comment to a specific issue",
         [type |-> "object",
          properties |->
            <<[name |-> "issue_id", type |-> "string",
               description |-> "Issue ID (numeric, e.g., '2563487')"],
              [name |-> "content", type |-> "string",
               description |-> "Comment content"]>>,
          required |-> <<"issue_id", "content">>])

\* a catalog that declares a ninth tool the dispatcher has no branch for
list_tools_undispatched ==
    <<GetUsersTool, GetStatusesTool, GetIssueTypesTool, GetIssueTool,
      CreateIssueTool, UpdateIssueTool, GetCommentsTool, AddCommentTool,
      Tool("freshrelease_delete_issue", "Delete an issue",
           [type |-> "object",
            properties |->
              <<[name |-> "issue_key", type |-> "string",
                 description |-> "Issue key"]>>,
            required |-> <<"issue_key">>])>>

list_tools ==
    <<GetUsersTool, GetStatusesTool, GetIssueTypesTool, GetIssueTool,
      CreateIssueTool, UpdateIssueTool, GetCommentsTool, AddCommentTool>>

(***************************************************************************)
(* call_tool: the positional arguments each branch hands to make_request.  *)
(***************************************************************************)
UsersCallArgs(page) == <<PyStr("/users?page=" \o Format(page))>>

\* a call that names the project scope before the endpoint
StatusesCallArgs_scoped == <<PyStr("FBOTS"), PyStr("/statuses")>>

StatusesCallArgs == <<PyStr("/statuses")>>

IssueTypesCallArgs == <<PyStr("/issue_types")>>

GetIssueCallArgs(issue_key) == <<PyStr("/issues/" \o Format(issue_key))>>

CreateIssueCallArgs(body) == <<PyStr("/issues"), PyStr("POST"), body>>

UpdateIssueCallArgs(issue_key, body) ==
    <<PyStr("/issues/" \o Format(issue_key)), PyStr("PUT"), body>>

GetCommentsCallArgs(issue_id) ==
    <<PyStr("/issues/" \o Format(issue_id) \o "/comments")>>

AddCommentCallArgs(issue_id, body) ==
    <<PyStr("/issues/" \o Format(issue_id) \o "/comments"), PyStr("POST"),
      body>>

TextContent(text) == [type |-> "text", text |-> text]

\* arguments[key] raises KeyError(key) when the key is absent
KeyError(key) == Raise("KeyError", Repr(PyStr(key)), <<>>)

\* return [TextContent(type="text", text=json.dumps(result, indent=2))]
RenderResult(result) ==
    IF result.raised THEN result
    ELSE Return(<<TextContent(Dumps(result.value, 0))>>, result.calls)

\* the first key of keys, in order, that arguments lacks (0 when none)
FirstMissing(arguments, keys) ==
    IF \A i \in 1..Len(keys) : DictHas(arguments, keys[i]) THEN 0
    ELSE CHOOSE i \in 1..Len(keys) :
            /\ ~DictHas(arguments, keys[i])
            /\ \A j \in 1..(i - 1) : DictHas(arguments, keys[j])

\* the body of the freshrelease_create_issue branch; the dict display
\* evaluates its values top to bottom
CreateIssueBranch(arguments, remote) ==
    LET before == FirstMissing(arguments, <<"title", "description">>)
        project == LoadGlobal("PROJECT_KEY", PyNone)
        after == FirstMissing(arguments,
                              <<"issue_type_id", "owner_id", "project_id">>)
    IN  IF before # 0 THEN KeyError(<<"title", "description">>[before])
        ELSE IF project.raised THEN project
        ELSE IF after # 0 THEN
            KeyError(<<"issue_type_id", "owner_id", "project_id">>[after])
        ELSE
            LET body ==
                  PyDict(<< <<"issue",
                    PyDict(<< <<"title", DictGet(arguments, "title")>>,
                              <<"description",
                                DictGet(arguments, "description")>>,
                              <<"key", project.value>>,
                              <<"issue_type_id",
                                DictGet(arguments, "issue_type_id")>>,
                              <<"owner_id", DictGet(arguments, "owner_id")>>,
                              <<"project_id",
                                DictGet(arguments, "project_id")>>,
                              <<"custom_field",
                                DictGetDefault(arguments, "custom_fields",
                                               PyDict(<<>>))>> >>)>> >>)
            IN  RenderResult(make_request(CreateIssueCallArgs(body), remote))

\* the body of the freshrelease_update_issue branch
UpdateIssueBranch(arguments, remote) ==
    IF ~DictHas(arguments, "issue_key") THEN KeyError("issue_key")
    ELSE
        LET issue_key == DictGet(arguments, "issue_key")
            issue0 == PyDict(<< <<"key", issue_key>> >>)
            issue1 == IF DictHas(arguments, "description")
                      THEN DictSet(issue0, "description",
                                   DictGet(arguments, "description"))
                      ELSE issue0
            issue2 == IF DictHas(arguments, "issue_type_id")
                      THEN DictSet(issue1, "issue_type_id",
                                   DictGet(arguments, "issue_type_id"))
                      ELSE issue1
            issue3 == IF DictHas(arguments, "custom_fields")
                      THEN DictSet(issue2, "custom_field",
                                   DictGet(arguments, "custom_fields"))
                      ELSE issue2
            body == PyDict(<< <<"issue", issue3>> >>)
        IN  RenderResult(make_request(UpdateIssueCallArgs(issue_key, body),
                                      remote))

\* the try block of call_tool
Dispatch(name, arguments, remote) ==
    IF name = "freshrelease_get_users" THEN
        LET page == DictGetDefault(arguments, "page", PyInt(1))
        IN  RenderResult(make_request(UsersCallArgs(page), remote))
    ELSE IF name = "freshrelease_get_statuses" THEN
        RenderResult(make_request(StatusesCallArgs, remote))
    ELSE IF name = "freshrelease_get_issue_types" THEN
        RenderResult(make_request(IssueTypesCallArgs, remote))
    ELSE IF name = "freshrelease_get_issue" THEN
        IF ~DictHas(arguments, "issue_key") THEN KeyError("issue_key")
        ELSE RenderResult(make_request(
                 GetIssueCallArgs(DictGet(arguments, "issue_key")), remote))
    ELSE IF name = "freshrelease_create_issue" THEN
        CreateIssueBranch(arguments, remote)
    ELSE IF name = "freshrelease_update_issue" THEN
        UpdateIssueBranch(arguments, remote)
    ELSE IF name = "freshrelease_get_comments" THEN
        IF ~DictHas(arguments, "issue_id") THEN KeyError("issue_id")
        ELSE RenderResult(make_request(
                 GetCommentsCallArgs(DictGet(arguments, "issue_id")), remote))
    ELSE IF name = "freshrelease_add_comment" THEN
        IF ~DictHas(arguments, "issue_id") THEN KeyError("issue_id")
        ELSE IF ~DictHas(arguments, "content") THEN KeyError("content")
        ELSE
            LET body == PyDict(<< <<"content",
                                    DictGet(arguments, "content")>> >>)
            IN  RenderResult(make_request(
                    AddCommentCallArgs(DictGet(arguments, "issue_id"), body),
                    remote))
    ELSE
        Raise("ValueError", "Unknown tool: " \o name, <<>>)

\* a handler that names one class only: except ValueError as e
Catches_onlyValueError(cls) == IsSubclass(cls, "ValueError")

\* except Exception as e
Catches(cls) == IsSubclass(cls, "Exception")

NoException == [cls |-> "", msg |-> ""]

\* call_tool(name, arguments): what it returns, what it caught, whether an
\* exception left it, and the requests that went out
call_tool(name, arguments, remote) ==
    LET tried == Dispatch(name, arguments, remote)
    IN  IF ~tried.raised THEN
            [returned |-> tried.value, caught |-> NoException,
             escaped |-> FALSE, outbound |-> tried.calls]
        ELSE IF Catches(tried.cls) THEN
            [returned |-> <<TextContent("Error: " \o tried.msg)>>,
             caught |-> [cls |-> tried.cls, msg |-> tried.msg],
             escaped |-> FALSE, outbound |-> tried.calls]
        ELSE
            [returned |-> <<>>,
             caught |-> [cls |-> tried.cls, msg |-> tried.msg],
             escaped |-> TRUE, outbound |-> tried.calls]

(***************************************************************************)
(* Inputs.                                                                 *)
(***************************************************************************)
DeclaredNames == {list_tools[i].name : i \in 1..Len(list_tools)}

\* names a caller may send that the source never declares
UndeclaredNames == {"get_issue", "freshrelease_delete_issue"}

ToolNames == DeclaredNames \cup UndeclaredNames

Descriptor(name) ==
    list_tools[CHOOSE i \in 1..Len(list_tools) : list_tools[i].name = name]

\* the property names of a declared tool, in schema order
PropertyNames(name) ==
    LET props == Descriptor(name).inputSchema.properties
    IN  [i \in 1..Len(props) |-> props[i].name]

\* the required names of a declared tool
RequiredNames(tool) ==
    IF "required" \in DOMAIN tool.inputSchema
    THEN {tool.inputSchema.required[i] :
            i \in 1..Len(tool.inputSchema.required)}
    ELSE {}

\* the values a caller supplies for an argument
ArgValues(key) ==
    CASE key = "page" -> {PyInt(n) : n \in 1..MaxPage}
      [] key = "limit" -> {PyInt(30)}
      [] key = "issue_key" -> {PyStr("X"), PyStr("FBOTS-47941")}
      [] key = "title" -> {PyStr("T")}
      [] key = "description" -> {PyStr("new")}
      [] key = "issue_type_id" -> {PyStr("14")}
      [] key = "owner_id" -> {PyStr("1")}
      [] key = "project_id" -> {PyStr("280")}
      [] key = "custom_fields" ->
            {PyDict(<< <<"cf_sprint", PyStr("7")>> >>)}
      [] key = "issue_id" -> {PyStr("123")}
      [] key = "content" -> {PyStr("hi")}

RECURSIVE Mappings(_, _)
\* the argument mappings over the keys keys[i..], in key order
Mappings(keys, i) ==
    IF i > Len(keys) THEN {<<>>}
    ELSE LET rest == Mappings(keys, i + 1)
         IN  rest \cup {<< <<keys[i], v>> >> \o m :
                            v \in ArgValues(keys[i]), m \in rest}

\* the argument mappings sent with a tool name: any part of the declared
\* properties, required or not
ArgumentsFor(name) ==
    IF name \in DeclaredNames
    THEN {PyDict(m) : m \in Mappings(PropertyNames(name), 1)}
    ELSE {PyDict(m) : m \in Mappings(<<"issue_key">>, 1)}

\* what the remote API would answer
Remotes ==
    {TransportFailure,
     Response(200, PyDict(<< <<"id", PyInt(1)>>,
                             <<"issue", PyDict(<< <<"key", PyStr("X")>> >>)>> >>),
              FALSE),
     Response(200, PyNone, TRUE),
     Response(404, PyDict(<< <<"message", PyStr("not found")>> >>), FALSE)}

NoRequest == [name |-> "", arguments |-> PyDict(<<>>), remote |-> TransportFailure]

(***************************************************************************)
(* The adapter: one discovery or one invocation at a time, each run to     *)
(* completion.                                                             *)
(***************************************************************************)
Init ==
    /\ op = "start"
    /\ request = NoRequest
    /\ outbound = <<>>
    /\ returned = <<>>
    /\ caught = NoException
    /\ escaped = FALSE
    /\ listed = <<>>

ListTools ==
    /\ ~escaped
    /\ op' = "list_tools"
    /\ listed' = list_tools
    /\ UNCHANGED <<request, outbound, returned, caught, escaped>>

CallTool ==
    /\ ~escaped
    /\ \E name \in ToolNames :
         \E arguments \in ArgumentsFor(name) :
           \E remote \in Remotes :
             \E done \in {call_tool(name, arguments, remote)} :
                 /\ op' = "call_tool"
                 /\ request' = [name |-> name, arguments |-> arguments,
                                remote |-> remote]
                 /\ outbound' = done.outbound
                 /\ returned' = done.returned
                 /\ caught' = done.caught
                 /\ escaped' = done.escaped
    /\ UNCHANGED listed

Next == ListTools \/ CallTool

Spec == Init /\ [][Next]_vars

(***************************************************************************)
(* Vocabulary of the properties.                                           *)
(***************************************************************************)
StartsWith(s, prefix) ==
    /\ Len(s) >= Len(prefix)
    /\ SubSeq(s, 1, Len(prefix)) = prefix

EndsWith(s, suffix) ==
    /\ Len(s) >= Len(suffix)
    /\ SubSeq(s, Len(s) - Len(suffix) + 1, Len(s)) = suffix

Contains(s, part) ==
    \E i \in 1..(Len(s) - Len(part) + 1) :
        SubSeq(s, i, i + Len(part) - 1) = part

\* an invocation has been handled; the observations describe the last one
Invoked == request.name # ""

\* the last invocation returned exactly one text item
OneTextItem == Len(returned) = 1 /\ returned[1].type = "text"

\* the catalog of the specification's table: name and required arguments
CatalogTable ==
    << <<"get_users", {}>>,
       <<"get_statuses", {}>>,
       <<"get_issue_types", {}>>,
       <<"get_issue", {"issue_key"}>>,
       <<"create_issue", {"title", "description", "issue_type_id",
                          "owner_id", "project_id"}>>,
       <<"update_issue", {"issue_key"}>>,
       <<"get_comments", {"issue_id"}>>,
       <<"add_comment", {"issue_id", "content"}>> >>

\* the name the source gives a tool of the table
CodeName(short) == "freshrelease_" \o short

TableNames == {CodeName(CatalogTable[i][1]) : i \in 1..Len(CatalogTable)}

TableRequired(name) ==
    CatalogTable[CHOOSE i \in 1..Len(CatalogTable) :
                    CodeName(CatalogTable[i][1]) = name][2]

\* the required keys of the table that the last invocation did not supply
MissingRequired ==
    IF request.name \in TableNames
    THEN {k \in TableRequired(request.name) : ~DictHas(request.arguments, k)}
    ELSE {}

\* the last invocation named a tool of the table and supplied all it requires
WellFormedInvocation ==
    /\ Invoked
    /\ request.name \in TableNames
    /\ MissingRequired = {}

RemoteSucceeds ==
    /\ request.remote.kind = "response"
    /\ request.remote.status = 200
    /\ ~request.remote.malformed

(***************************************************************************)
(* Properties.                                                             *)
(***************************************************************************)

\* C1: every invocation, whatever the tool name and the arguments, returns:
\* no exception leaves call_tool, the result is one text item, and when the
\* invocation failed (an exception was raised, the name is not a tool of the
\* table, or a required key is missing) its text begins with "Error: ";
\* the adapter can then handle the next invocation.  Whatever make_request
\* raises, however it is called and whatever the remote API answers, is of
\* a class the handler catches.
C1_FailuresBecomeErrorText ==
    /\ ~escaped
    /\ ENABLED CallTool
    /\ \A remote \in Remotes :
          \A pos \in {<<>>, <<PyStr("/statuses")>>,
                      <<PyStr("FBOTS"), PyStr("/statuses")>>,
                      <<PyStr("FBOTS"), PyStr("/statuses"), PyStr("DELETE")>>} :
             make_request(pos, remote).raised
                => Catches(make_request(pos, remote).cls)
    /\ Invoked =>
         /\ OneTextItem
         /\ (\/ caught # NoException
             \/ request.name \notin TableNames
             \/ MissingRequired # {})
            => /\ StartsWith(returned[1].text, "Error: ")
               /\ returned[1].text = "Error: " \o caught.msg

\* C1 witness: an unsupported-method failure was raised inside make_request
\* and came back as error text.
C1_Witness ==
    /\ request.name = "freshrelease_update_issue"
    /\ caught.cls = "ValueError"
    /\ StartsWith(returned[1].text, "Error: Unsupported method: ")
    /\ ~escaped

\* C2: an invocation of a declared tool with all required arguments present
\* performs exactly one outbound HTTP request and returns one text item,
\* which on success is the 2-space-indented JSON of the decoded response.
C2_ExactlyOneRequest ==
    WellFormedInvocation =>
        /\ Len(outbound) = 1
        /\ OneTextItem
        /\ RemoteSucceeds => returned[1].text = Dumps(request.remote.json, 0)

\* C3: an invocation is rejected as an unknown tool exactly when its name is
\* not the name of a descriptor that list_tools returns; a name outside the
\* catalog gets one text item beginning with "Error:" and no outbound call.
C3_UnknownExactlyWhenUndeclared ==
    Invoked =>
        LET declared == \E i \in 1..Len(list_tools) :
                            list_tools[i].name = request.name
            rejected == /\ caught.cls = "ValueError"
                        /\ caught.msg = "Unknown tool: " \o request.name
        IN  /\ rejected <=> ~declared
            /\ ~declared => /\ OneTextItem
                            /\ StartsWith(returned[1].text, "Error:")
                            /\ outbound = <<>>

\* C3 witness: the table's short name get_issue, which the source does not
\* declare, was rejected as unknown without an outbound call.
C3_Witness ==
    /\ request.name = "get_issue"
    /\ returned = <<TextContent("Error: Unknown tool: get_issue")>>
    /\ outbound = <<>>

\* C4: an invocation of a declared tool that lacks a required key performs
\* no outbound call and returns one text item beginning with "Error: " whose
\* message comes from the failed access to a missing key.
C4_MissingKeyReported ==
    (Invoked /\ MissingRequired # {}) =>
        /\ outbound = <<>>
        /\ OneTextItem
        /\ StartsWith(returned[1].text, "Error: ")
        /\ caught.cls = "KeyError"
        /\ \E k \in MissingRequired :
              returned[1].text = "Error: " \o Repr(PyStr(k))
        /\ ~escaped

\* C5: get_issue with issue_key=K sends one GET without body to the path
\* /issues/K under the project scope and returns the pretty-printed JSON of
\* the remote answer.
C5_GetIssueRequest ==
    (Invoked /\ request.name = "freshrelease_get_issue"
             /\ DictHas(request.arguments, "issue_key")) =>
        /\ Len(outbound) = 1
        /\ outbound[1].method = "GET"
        /\ outbound[1].body = PyNone
        /\ StartsWith(outbound[1].url, BASE_URL \o "/")
        /\ EndsWith(outbound[1].url,
                    "/issues/" \o DictGet(request.arguments, "issue_key").s)
        /\ RemoteSucceeds =>
              returned = <<TextContent(Dumps(request.remote.json, 0))>>

\* the issue object update_issue is to send: key, then each supplied option
ExpectedUpdateIssue ==
    LET a == request.arguments
        opt(key, as) == IF DictHas(a, key) THEN << <<as, DictGet(a, key)>> >>
                        ELSE <<>>
    IN  PyDict(<< <<"key", DictGet(a, "issue_key")>> >>
               \o opt("description", "description")
               \o opt("issue_type_id", "issue_type_id")
               \o opt("custom_fields", "custom_field"))

\* C6: update_issue with issue_key=K and any part of description,
\* issue_type_id, custom_fields sends one PUT to /issues/K whose body is
\* {issue: {key: K, ...}} with exactly the supplied options, custom_fields
\* under custom_field.
C6_UpdateIssueRequest ==
    (Invoked /\ request.name = "freshrelease_update_issue"
             /\ DictHas(request.arguments, "issue_key")) =>
        /\ Len(outbound) = 1
        /\ outbound[1].method = "PUT"
        /\ EndsWith(outbound[1].url,
                    "/issues/" \o DictGet(request.arguments, "issue_key").s)
        /\ outbound[1].body = PyDict(<< <<"issue", ExpectedUpdateIssue>> >>)

\* C7: create_issue with its five required arguments sends one POST to
\* /issues whose issue object carries them under the same keys, a key field
\* and custom_field equal to custom_fields, or {} when that is omitted.
C7_CreateIssueRequest ==
    (Invoked /\ request.name = "freshrelease_create_issue"
             /\ MissingRequired = {}) =>
        /\ Len(outbound) = 1
        /\ outbound[1].method = "POST"
        /\ EndsWith(outbound[1].url, "/issues")
        /\ DictHas(outbound[1].body, "issue")
        /\ LET issue == DictGet(outbound[1].body, "issue")
               a == request.arguments
           IN  /\ \A k \in TableRequired(request.name) :
                     DictHas(issue, k) /\ DictGet(issue, k) = DictGet(a, k)
               /\ DictHas(issue, "key")
               /\ DictHas(issue, "custom_field")
               /\ DictGet(issue, "custom_field")
                    = DictGetDefault(a, "custom_fields", PyDict(<<>>))
               /\ Len(issue.d) = 7

\* C8: when the remote API answers 404, the invocation returns one text
\* item beginning with "Error:" that carries the status, and exactly one
\* outbound call was made.
C8_NotFoundReportedOnce ==
    (WellFormedInvocation /\ request.remote.kind = "response"
                          /\ request.remote.status = 404) =>
        /\ Len(outbound) = 1
        /\ OneTextItem
        /\ StartsWith(returned[1].text, "Error:")
        /\ Contains(returned[1].text, "404")

\* C9: whatever was invoked before, list_tools returns the eight tools of
\* the table in its order, each name once, each with the table's required
\* arguments.
C9_CatalogMatchesTable ==
    listed # <<>> =>
        /\ Len(listed) = Len(CatalogTable)
        /\ \A i \in 1..Len(listed) :
              /\ listed[i].name = CodeName(CatalogTable[i][1])
              /\ RequiredNames(listed[i]) = CatalogTable[i][2]
        /\ \A i, j \in 1..Len(listed) :
              listed[i].name = listed[j].name => i = j

\* C9 witness: the catalog was listed right after an invocation that failed.
C9_Witness ==
    /\ op = "list_tools"
    /\ Len(listed) = 8
    /\ Invoked
    /\ caught.cls = "KeyError"

\* C10: as the calls into make_request are written, no invocation sends an
\* outbound request and every one returns one text item beginning with
\* "Error: ": the GET branches fail binding endpoint, the POST and PUT
\* branches fail on the body standing where the method belongs, and
\* create_issue fails reading PROJECT_KEY.
C10_NoRequestEverLeaves ==
    Invoked =>
        /\ outbound = <<>>
        /\ OneTextItem
        /\ StartsWith(returned[1].text, "Error: ")
        /\ (WellFormedInvocation /\ request.name \in
              {"freshrelease_get_users", "freshrelease_get_statuses",
               "freshrelease_get_issue_types", "freshrelease_get_issue",
               "freshrelease_get_comments"})
           => /\ caught.cls = "TypeError"
              /\ Contains(caught.msg, "'endpoint'")
        /\ (WellFormedInvocation /\ request.name \in
              {"freshrelease_update_issue", "freshrelease_add_comment"})
           => /\ caught.cls = "ValueError"
              /\ StartsWith(caught.msg, "Unsupported method: {")
        /\ (WellFormedInvocation
              /\ request.name = "freshrelease_create_issue")
           => /\ caught.cls = "NameError"
              /\ Contains(caught.msg, "PROJECT_KEY")

\* C10 witness: get_statuses was invoked while the remote API would have
\* answered 200, and nothing was sent.
C10_Witness ==
    /\ request.name = "freshrelease_get_statuses"
    /\ RemoteSucceeds
    /\ outbound = <<>>
    /\ caught.cls = "TypeError"

====
